---------------------------- MODULE Spec2Model ----------------------------
(***************************************************************************)
(* Batch compute engine of the AI spreadsheet: the zustand store           *)
(* (startCompute, computeSingleCell, stopCompute, updateCellState,         *)
(* updateCell, updateComputeProgress), the completion client               *)
(* (getCompletion) and the scheduler (batchCompletions over p-limit),      *)
(* together with the UI commands of Grid.tsx that drive them.              *)
(*                                                                         *)
(* Execution is the browser's event loop: one thread, a macrotask (a UI    *)
(* command, a network response) runs to completion and the promise         *)
(* continuations it caused (microtasks) run before the next macrotask.     *)
(* Microtask steps are separate actions here; macrotask actions are        *)
(* guarded by MicroIdle.                                                   *)
(***************************************************************************)
EXTENDS Integers, Sequences, FiniteSets, TLC

\* ------------------------------------------------------------------ bounds
NumRows == 2          \* rows of the sheet
MaxCmds == 2          \* UI commands issued in one behaviour
MaxTemplateLen == 4   \* characters typed between the quotes of a formula
MaxPieces == 4        \* pieces of a template rendered without a limit
ShortPieces == 3      \* pieces of a template rendered under a limit
MaxLimit == 3         \* largest settings.maxInputChars

\* ------------------------------------------------------------------ values
Null == "null"                      \* row.values[columnId] never written
NoError == "none"                   \* meta.error undefined
NoCell == "none"                    \* row.meta?.[columnId] undefined
CellStates == {"idle", "queued", "running", "done", "error"}

ErrNoKey == "OpenRouter API key not configured. Please add your API key in Settings (gear icon in header)."
ErrHttp == "HTTP error"             \* any non-empty message of a failed request: `HTTP ${status}: ...`,
                                    \* data.error.message, a thrown error's message, 'Unknown error occurred'
ErrRequestCancelled == "Request cancelled"
ErrBatchCancelled == "Batch cancelled"
ErrParse == "Invalid formula"       \* parsed.error of parseFormula

NoMeta == [state |-> NoCell, error |-> NoError]
NoProgress == [total |-> 0, queued |-> 0, running |-> 0, done |-> 0, failed |-> 0]
NoEntry == [total |-> -1, queued |-> -1, running |-> -1, done |-> -1, failed |-> -1]
NoResult == [value |-> "", error |-> "unset"]
NoAlert == "none"

Max(a, b) == IF a >= b THEN a ELSE b

VARIABLES
  meta,             \* [Rows -> [state, error]]   row.meta[columnId] of the AI column
  values,           \* [Rows -> Null | "" | "v"]  row.values[columnId] of the AI column
  isComputing,      \* store.isComputing
  abortController,  \* store.abortController: index of the run owning it, 0 = null
  computeProgress,  \* store.computeProgress[columnId]
  hasProgress,      \* whether computeProgress has an entry for the column
  runs,             \* one record per startCompute invocation, in invocation order
  singles,          \* one record per computeSingleCell invocation
  cmds,             \* UI commands issued so far
  alert,            \* the message of the last alert() shown, NoAlert when none was
  apiKey,           \* localStorage holds an API key
  formulaOk,        \* the column's formula parses
  promptBlank,      \* [Rows -> BOOLEAN]: the row's rendered prompt is blank
  concurrency,      \* settings.concurrency
  options,          \* model / temperature / maxTokens: formula option, column override, default
  numRows,          \* currentSheet.rows.length
  inputs,           \* [Rows -> text]  row.values of the text column the template refers to
  template,         \* parsed.template of the column's formula
  maxInputChars,    \* settings.maxInputChars
  otherProgress,    \* store.computeProgress of a second column: an entry, or NoEntry
  saveCall,         \* what the last step asked of persistence: saveSheet(), autoSave()
  formula,          \* a formula as text, given to parseFormula
  parsed,           \* what parseFormula returned for it
  rendered,         \* what renderTemplate returned
  currentSheet,     \* store.currentSheet is not null
  columnKind        \* the column startCompute is called for: "ai", "text", or "missing"

vars == <<meta, values, isComputing, abortController, computeProgress, hasProgress,
          runs, singles, cmds, alert, apiKey, formulaOk, promptBlank, concurrency, options,
          numRows, inputs, template, maxInputChars, otherProgress, saveCall,
          formula, parsed, rendered, currentSheet, columnKind>>

config == <<apiKey, formulaOk, promptBlank, concurrency, options,
            numRows, inputs, template, maxInputChars, formula, parsed, rendered,
            currentSheet, columnKind>>

Rows == 1..numRows

\* ------------------------------------------------------------- store setters
\* an updateCellState that merges into the old entry: without an error argument the
\* stored error stays
updateCellStateKeepsError(m, r, s, e) ==
  [m EXCEPT ![r] = [state |-> s, error |-> IF e = NoError THEN m[r].error ELSE e]]

updateCellState(m, r, s, e) == [m EXCEPT ![r] = [state |-> s, error |-> e]]

updateCell(v, r, val) == [v EXCEPT ![r] = val]

\* the entry the callbacks read: get().computeProgress[columnId] || zeros
currentProgress == IF hasProgress THEN computeProgress ELSE NoProgress


\* a set() that builds computeProgress from the one entry it writes
OtherEntriesDropped(o) == NoEntry

\* ...s.computeProgress: the entries of the other columns go into the new map as they are
OtherEntries(o) == o

\* ComputeProgressOverlay: Math.round(((done + failed) / total) * 100), 0 when total is 0
progressPercent(p) ==
  IF p.total = 0 THEN 0 ELSE (200 * (p.done + p.failed) + p.total) \div (2 * p.total)

updateComputeProgress(p, partial) == [f \in DOMAIN p |-> IF f \in DOMAIN partial THEN partial[f] ELSE p[f]]

\* ------------------------------------------------------------ the formula
\* a parser that accepts every formula
ParseFailsNever == FALSE

\* 'error' in parseFormula(column.formula)
ParseFails == ~formulaOk

\* ------------------------------------------------------------------- text
\* a string is the sequence of its characters
Quote == "\""
Backslash == "\\"
Space == " "
Comma == ","
Open == "{"
Close == "}"

StartsWith(s, p) == Len(s) >= Len(p) /\ SubSeq(s, 1, Len(p)) = p

EndsWith(s, p) == Len(s) >= Len(p) /\ SubSeq(s, Len(s) - Len(p) + 1, Len(s)) = p

\* s.slice(from): the characters from 0-based index from on
SliceFrom(s, from) == SubSeq(s, from + 1, Len(s))

RECURSIVE TrimStart(_)
TrimStart(s) == IF s # <<>> /\ Head(s) = Space THEN TrimStart(Tail(s)) ELSE s

RECURSIVE TrimEnd(_)
TrimEnd(s) == IF s # <<>> /\ s[Len(s)] = Space THEN TrimEnd(SubSeq(s, 1, Len(s) - 1)) ELSE s

\* s.trim()
Trim(s) == TrimEnd(TrimStart(s))

Min(a, b) == IF a <= b THEN a ELSE b

\* ------------------------------------------------------------ parseFormula
\* JSON.parse and what the option checks read from its value.  The text of a JSON
\* document is one element of the sequence; a number is in tenths where it is read as a
\* temperature
Undefined == [type |-> "undefined", str |-> "", num |-> 0]
JString(s) == [type |-> "string", str |-> s, num |-> 0]
JNumber(n) == [type |-> "number", str |-> "", num |-> n]
JBoolean == [type |-> "boolean", str |-> "", num |-> 0]

\* the value of a document: null, or what options.model, options.temperature and
\* options.maxTokens are on it
JNull == [isNull |-> TRUE, model |-> Undefined, temperature |-> Undefined, maxTokens |-> Undefined]
JValue(m, t, x) == [isNull |-> FALSE, model |-> m, temperature |-> t, maxTokens |-> x]

JsonDocs ==
  [text : {"{}"}, value : {JValue(Undefined, Undefined, Undefined)}]
    \cup [text : {"5"}, value : {JValue(Undefined, Undefined, Undefined)}]
    \cup [text : {"null"}, value : {JNull}]
    \cup [text : {"{\"foo\":1}"}, value : {JValue(Undefined, Undefined, Undefined)}]
    \cup [text : {"{\"model\":\"m\"}"}, value : {JValue(JString("m"), Undefined, Undefined)}]
    \cup [text : {"{\"model\":\"\"}"}, value : {JValue(JString(""), Undefined, Undefined)}]
    \cup [text : {"{\"model\":7}"}, value : {JValue(JNumber(7), Undefined, Undefined)}]
    \cup [text : {"{\"temperature\":2}"}, value : {JValue(Undefined, JNumber(20), Undefined)}]
    \cup [text : {"{\"temperature\":0.5}"}, value : {JValue(Undefined, JNumber(5), Undefined)}]
    \cup [text : {"{\"temperature\":0}"}, value : {JValue(Undefined, JNumber(0), Undefined)}]
    \cup [text : {"{\"temperature\":-1}"}, value : {JValue(Undefined, JNumber(-10), Undefined)}]
    \cup [text : {"{\"temperature\":\"hot\"}"}, value : {JValue(Undefined, JString("hot"), Undefined)}]
    \cup [text : {"{\"maxTokens\":0}"}, value : {JValue(Undefined, Undefined, JNumber(0))}]
    \cup [text : {"{\"maxTokens\":-3}"}, value : {JValue(Undefined, Undefined, JNumber(-3))}]
    \cup [text : {"{\"maxTokens\":512}"}, value : {JValue(Undefined, Undefined, JNumber(512))}]
    \cup [text : {"{\"maxTokens\":true}"}, value : {JValue(Undefined, Undefined, JBoolean)}]
    \cup [text : {"{\"temperature\":2,\"maxTokens\":0,\"model\":\"m\",\"foo\":1}"},
          value : {JValue(JString("m"), JNumber(20), JNumber(0))}]

JsonTexts == {d.text : d \in JsonDocs}

\* text that JSON.parse rejects
BadJson == "{bad"

\* JSON.parse(str) succeeds: str is the text of one document
JsonParses(str) == Len(str) = 1 /\ str[1] \in JsonTexts

JsonParse(str) == (CHOOSE d \in JsonDocs : d.text = str[1]).value

\* what parseFormula returns: { error } or { template, options }
Absent == -1                        \* an undefined number
NoOptions == [present |-> FALSE, model |-> Null, temperature |-> Absent, maxTokens |-> Absent]
ParseError(msg) == [error |-> msg, template |-> <<>>, options |-> NoOptions]
Parsed(t, o) == [error |-> NoError, template |-> t, options |-> o]
NotParsed == ParseError("not parsed")

\* a validation that keeps a numeric option as it is written
ValidatedOptionsUnclamped(v) ==
  LET m == IF v.model.type = "string" THEN v.model.str ELSE Null
      t == IF v.temperature.type = "number" THEN v.temperature.num ELSE Absent
      x == IF v.maxTokens.type = "number" THEN v.maxTokens.num ELSE Absent
  IN  [present |-> v.model.type = "string" \/ v.temperature.type = "number"
                     \/ v.maxTokens.type = "number",
       model |-> m, temperature |-> t, maxTokens |-> x]

\* validatedOptions: a string model, a number temperature clamped to [0, 1], a number
\* maxTokens raised to 1; undefined when no key was kept
ValidatedOptions(v) ==
  LET m == IF v.model.type = "string" THEN v.model.str ELSE Null
      t == IF v.temperature.type = "number" THEN Max(0, Min(10, v.temperature.num)) ELSE Absent
      x == IF v.maxTokens.type = "number" THEN Max(1, v.maxTokens.num) ELSE Absent
  IN  [present |-> v.model.type = "string" \/ v.temperature.type = "number"
                     \/ v.maxTokens.type = "number",
       model |-> m, temperature |-> t, maxTokens |-> x]

\* the for loop over content from 0-based index 1: the 1-based position of the first
\* double quote not skipped by the escape flag, 0 when there is none
RECURSIVE EndQuote(_, _, _)
EndQuote(content, i, inEscape) ==
  IF i > Len(content) THEN 0
  ELSE IF inEscape THEN EndQuote(content, i + 1, FALSE)
  ELSE IF content[i] = Backslash THEN EndQuote(content, i + 1, TRUE)
  ELSE IF content[i] = Quote THEN i
  ELSE EndQuote(content, i + 1, FALSE)

EndQuoteIndex(content) == EndQuote(content, 2, FALSE)

parseFormulaContent(content) ==
  IF Trim(content) = <<>> THEN ParseError("Formula cannot be empty")
  ELSE IF ~StartsWith(content, <<Quote>>) THEN ParseError("Formula template must be a quoted string")
  ELSE
    LET end == EndQuoteIndex(content)
        tpl == SubSeq(content, 2, end - 1)
        remaining == Trim(SliceFrom(content, end))
        optionsStr == Trim(SliceFrom(remaining, 1))
    IN  IF end = 0 THEN ParseError("Unclosed template string")
        ELSE IF remaining = <<>> THEN Parsed(tpl, NoOptions)
        ELSE IF ~StartsWith(remaining, <<Comma>>) THEN ParseError("Expected comma after template string")
        ELSE IF optionsStr = <<>> THEN Parsed(tpl, NoOptions)
        ELSE IF ~JsonParses(optionsStr) THEN ParseError("Invalid JSON options")
        ELSE IF JsonParse(optionsStr).isNull THEN ParseError("Invalid JSON options")
        ELSE LET o == ValidatedOptions(JsonParse(optionsStr))
             IN  Parsed(tpl, IF o.present THEN o ELSE NoOptions)

parseFormula(f) ==
  IF ~StartsWith(f, <<"=", "A", "I", "(">>) THEN ParseError("Formula must start with =AI(")
  ELSE IF ~EndsWith(f, <<")">>) THEN ParseError("Formula must end with )")
  ELSE parseFormulaContent(SubSeq(f, 5, Len(f) - 1))

\* ---------------------------------------------------------- renderTemplate
\* a cell of the text column: null (or never written), or text
CellNull == [isNull |-> TRUE, text |-> <<>>]
Text(s) == [isNull |-> FALSE, text |-> s]

\* the one column of the catalog that templates refer to
ColumnName == <<"A">>

\* what template.replace(ESCAPED_BRACE_PATTERN, ...) puts for \{{
Sentinel == "\\x00ESCAPED_BRACE\\x00"

Warning(kind, name, max) == [kind |-> kind, name |-> name, max |-> max]

\* template.replace(ESCAPED_BRACE_PATTERN, sentinel), from position i on
RECURSIVE HideEscaped(_, _)
HideEscaped(s, i) ==
  IF i > Len(s) THEN <<>>
  ELSE IF i + 2 <= Len(s) /\ s[i] = Backslash /\ s[i + 1] = Open /\ s[i + 2] = Open
  THEN <<Sentinel>> \o HideEscaped(s, i + 3)
  ELSE <<s[i]>> \o HideEscaped(s, i + 1)

\* the position of the first } at or after i, 0 when there is none
RECURSIVE FirstClose(_, _)
FirstClose(s, i) ==
  IF i > Len(s) THEN 0
  ELSE IF s[i] = Close THEN i
  ELSE FirstClose(s, i + 1)

\* PLACEHOLDER_PATTERN matches at i: {{, one or more characters other than }, }}.
\* The position of the first closing brace, 0 when there is no match at i
MatchAt(s, i) ==
  IF i + 1 <= Len(s) /\ s[i] = Open /\ s[i + 1] = Open
  THEN LET j == FirstClose(s, i + 2)
       IN  IF j > i + 2 /\ j + 1 <= Len(s) /\ s[j + 1] = Close THEN j ELSE 0
  ELSE 0

\* a callback that leaves an unknown placeholder in place, without a warning
ReplacementKeepsUnknown(name, val) ==
  IF Trim(name) # ColumnName
  THEN [text |-> <<Open, Open>> \o name \o <<Close, Close>>, warnings |-> <<>>]
  ELSE IF val.isNull THEN [text |-> <<>>, warnings |-> <<>>]
  ELSE [text |-> val.text, warnings |-> <<>>]

\* the callback of processed.replace(PLACEHOLDER_PATTERN, ...)
Replacement(name, val) ==
  IF Trim(name) # ColumnName
  THEN [text |-> <<>>, warnings |-> <<Warning("notfound", name, 0)>>]
  ELSE IF val.isNull THEN [text |-> <<>>, warnings |-> <<>>]
  ELSE [text |-> val.text, warnings |-> <<>>]

\* the one element of a set of one element: its bound variable holds a value that was
\* computed once
The(S) == CHOOSE x \in S : TRUE

\* processed.replace(PLACEHOLDER_PATTERN, callback), from position i on: the text it
\* returns
RECURSIVE Substitute(_, _, _)
Substitute(s, i, val) ==
  IF i > Len(s) THEN <<>>
  ELSE The({IF j # 0
            THEN Replacement(SubSeq(s, i + 2, j - 1), val).text \o Substitute(s, j + 2, val)
            ELSE <<s[i]>> \o Substitute(s, i + 1, val) : j \in {MatchAt(s, i)}})

\* the warnings its callback pushes, in the order of the matches
RECURSIVE SubstituteWarnings(_, _, _)
SubstituteWarnings(s, i, val) ==
  IF i > Len(s) THEN <<>>
  ELSE The({IF j # 0
            THEN Replacement(SubSeq(s, i + 2, j - 1), val).warnings
                   \o SubstituteWarnings(s, j + 2, val)
            ELSE SubstituteWarnings(s, i + 1, val) : j \in {MatchAt(s, i)}})

\* processed.replace(/\x00ESCAPED_BRACE\x00/g, '{')
RestoreEscaped(s) == [i \in 1..Len(s) |-> IF s[i] = Sentinel THEN Open ELSE s[i]]

\* a limit that cuts the text whenever it is set, and one character short
TruncateShort(text, max) ==
  IF max # Absent /\ max > 0 /\ Len(text) >= max
  THEN [text |-> SubSeq(text, 1, max - 1), warnings |-> <<Warning("truncated", <<>>, max)>>]
  ELSE [text |-> text, warnings |-> <<>>]

\* if (maxInputChars && maxInputChars > 0 && processed.length > maxInputChars)
Truncate(text, max) ==
  IF max # Absent /\ max > 0 /\ Len(text) > max
  THEN [text |-> SubSeq(text, 1, max), warnings |-> <<Warning("truncated", <<>>, max)>>]
  ELSE [text |-> text, warnings |-> <<>>]

\* the three replace passes and the limit, each on the value of the pass before
renderTemplate(tpl, val, max) ==
  The({The({[rendered |-> Truncate(processed, max).text,
             warnings |-> SubstituteWarnings(hidden, 1, val)
                            \o Truncate(processed, max).warnings]
            : processed \in {RestoreEscaped(Substitute(hidden, 1, val))}})
       : hidden \in {HideEscaped(tpl, 1)}})

NotRendered == [rendered |-> <<>>, warnings |-> <<Warning("not rendered", <<>>, 0)>>]

\* the prompt of a row: rendered from a template and the row's cell
PromptOf(tpl, val) == renderTemplate(tpl, val, maxInputChars).rendered

\* !rendered.trim()
IsBlank(text) == Trim(text) = <<>>

\* ------------------------------------------------------------ row selection
Truthy(v) == v \notin {Null, ""}

\* a default run that looks at the state only and skips every done row
UnprocessedNotDone(sm, sv) == {r \in Rows : sm[r].state # "done"}

\* rows counted / selected by a default run: not (done with a non-empty value)
Unprocessed(sm, sv) == {r \in Rows : ~(sm[r].state = "done" /\ Truthy(sv[r]))}

\* a retry that takes every row that is not done
FailedRowsNotDone(sm) == {r \in Rows : sm[r].state # "done"}

\* rows counted / selected by a retry run
FailedRows(sm) == {r \in Rows : sm[r].state = "error"}

\* const toProcess = retry ? failedCount : unprocessedCount
ToProcess(retry, forceAll, sm, sv) ==
  IF retry THEN Cardinality(FailedRows(sm))
  ELSE IF forceAll THEN numRows
  ELSE Cardinality(Unprocessed(sm, sv))

\* const rowsToCompute = retry ? ... : forceAll ? ... : ...
RowsToCompute(retry, forceAll, sm, sv) ==
  IF retry THEN FailedRows(sm)
  ELSE IF forceAll THEN Rows
  ELSE Unprocessed(sm, sv)

InitialProgress(n) == [total |-> n, queued |-> n, running |-> 0, done |-> 0, failed |-> 0]

\* ----------------------------------------------------------- task options
\* temperatures are in tenths; Absent stands for an undefined number, Null for an
\* undefined string
DefaultModelId == "google/gemini-2.5-flash"
DefaultTemperature == 10
DefaultMaxTokens == 2048

\* what parseFormula can leave in parsed.options (a string, a number clamped to [0, 1],
\* a number of at least 1) and what a column's ai overrides can hold
OptionChoices ==
  [optModel : {Null, "", "opt/model"}, colModel : {Null, "", "col/model"},
   defModel : {DefaultModelId},
   optTemp : {Absent, 0, 3}, colTemp : {Absent, 0, 6}, defTemp : {DefaultTemperature},
   optMax : {Absent, 1, 100}, colMax : {Absent, 0, 200}, defMax : {DefaultMaxTokens}]

\* a formula without options on a column without overrides
NoOverrides ==
  [optModel |-> Null, colModel |-> Null, defModel |-> DefaultModelId,
   optTemp |-> Absent, colTemp |-> Absent, defTemp |-> DefaultTemperature,
   optMax |-> Absent, colMax |-> Absent, defMax |-> DefaultMaxTokens]

\* a || b on strings
OrElse(a, b) == IF a \notin {Null, ""} THEN a ELSE b

\* a || b on numbers: 0 falls through as well
CoalesceTruthy(a, b) == IF a \notin {Absent, 0} THEN a ELSE b

\* a ?? b on numbers
Coalesce(a, b) == IF a # Absent THEN a ELSE b

\* the modelId, temperature and maxTokens of a task
TaskOptions(o) ==
  [modelId |-> OrElse(o.optModel, OrElse(o.colModel, o.defModel)),
   temperature |-> Coalesce(o.optTemp, Coalesce(o.colTemp, o.defTemp)),
   maxTokens |-> Coalesce(o.optMax, Coalesce(o.colMax, o.defMax))]

\* ------------------------------------------------------------------- tasks
\* no request was sent
NoRequest == [model |-> Null, content |-> <<>>, temperature |-> Absent, max_tokens |-> Absent]

\* tasks.push({...}): the prompt and the options are made from the closure's state, the
\* row and the column as they were when startCompute was invoked
NewTask(run, r) ==
  [row |-> r, pc |-> "queued", res |-> NoResult,
   started |-> 0, fetched |-> 0, reported |-> 0,
   prompt |-> PromptOf(run.snapTemplate, run.snapInputs[r]),
   opts |-> TaskOptions(run.snapOptions),
   sent |-> NoRequest]

RowSeq == [i \in 1..numRows |-> i]

\* a for loop that pushes a task for every selected row, blank prompt or not
BuildTasksAll(run, sel) ==
  LET keep == SelectSeq(RowSeq, LAMBDA r : r \in sel)
  IN  [i \in 1..Len(keep) |-> NewTask(run, keep[i])]

\* the for loop over rowsToCompute: tasks are pushed for the non-blank rows, in row order
BuildTasks(run, sel) ==
  LET keep == SelectSeq(RowSeq, LAMBDA r : r \in sel /\ ~promptBlank[r])
  IN  [i \in 1..Len(keep) |-> NewTask(run, keep[i])]

\* the for loop's cell writes: every selected row is queued, a blank one is then done
BuildMeta(m, sel) ==
  [r \in Rows |-> IF r \notin sel THEN m[r]
                  ELSE IF promptBlank[r] THEN [state |-> "done", error |-> NoError]
                  ELSE [state |-> "queued", error |-> NoError]]

BuildValues(v, sel) == [r \in Rows |-> IF r \in sel /\ promptBlank[r] THEN "" ELSE v[r]]

\* ------------------------------------------------------------- persistence
\* saveCall records what a step asked of persistence.  direct: it called saveSheet()
\* itself, as its last store operation.  auto: the number of autoSave() calls it made:
\* each updateCell and updateColumn makes one, before the handler's later writes.  The
\* throttle turns the calls into saveSheet calls: the first call runs saveSheet at once
\* when the last one is more than 500 ms ago, any other call arms a timer that runs it
\* 500 ms later; neither changes anything in the store
NoSave == [direct |-> FALSE, auto |-> 0]

SaveCall(direct, n) == [direct |-> direct, auto |-> n]

SavePeriod == 10

\* an onResult that saves after every result
OnResultSavesAlways(p) == TRUE

\* if (totalProcessed % 10 === 0)
OnResultSaves(p) == (p.done + p.failed + 1) % SavePeriod = 0

\* ------------------------------------------------------------ the callbacks
\* an onTaskStart that marks the cell done before its request was made
onTaskStartMetaDone(m, r) == updateCellState(m, r, "done", NoError)

\* onTaskStart (the fifth argument of batchCompletions)
onTaskStartMeta(m, r) == updateCellState(m, r, "running", NoError)

\* an onTaskStart that counts the task as running without taking it out of queued
onTaskStartProgressKeepsQueued(p) == updateComputeProgress(p, [running |-> p.running + 1])

onTaskStartProgress(p) ==
  updateComputeProgress(p, [running |-> p.running + 1, queued |-> Max(0, p.queued - 1)])

\* if (result.error): the error field is there and is not the empty string
IsError(res) == res.error \notin {NoError, ""}

\* onResult (the third argument of batchCompletions)
onResultMeta(m, r, res) ==
  IF IsError(res) THEN updateCellState(m, r, "error", res.error)
  ELSE updateCellState(m, r, "done", NoError)

onResultValues(v, r, res) == IF IsError(res) THEN v ELSE updateCell(v, r, res.value)

onResultProgress(p, res) ==
  IF IsError(res)
  THEN updateComputeProgress(p, [failed |-> p.failed + 1, running |-> Max(0, p.running - 1)])
  ELSE updateComputeProgress(p, [done |-> p.done + 1, running |-> Max(0, p.running - 1)])

\* --------------------------------------------------------- completion client
ResOk == [value |-> "v", error |-> NoError]
ResEmpty == [value |-> "", error |-> NoError]
ResHttp == [value |-> "", error |-> ErrHttp]
ResNoKey == [value |-> "", error |-> ErrNoKey]
ResRequestCancelled == [value |-> "", error |-> ErrRequestCancelled]
ResBatchCancelled == [value |-> "", error |-> ErrBatchCancelled]
ResNoMessage == [value |-> "", error |-> ""]
Thrown == [value |-> "", error |-> "thrown"]      \* no result: the promise rejects

\* what the network does with a request: a 2xx body with content or without, a non-2xx
\* status, a 2xx body carrying an error, a body that is not JSON, a rejected fetch whose
\* Error has a message or has none, a rejection with something that is not an Error,
\* and, once the signal is aborted, an AbortError
FetchOutcomes(aborted) ==
  IF aborted THEN {"abort"}
  ELSE {"content", "blank", "status", "payload", "malformed", "transport", "nomessage",
        "nonerror"}

\* a getCompletion without its try / catch
getCompletionUncaught(raw) ==
  CASE raw = "content" -> ResOk
    [] raw = "blank" -> ResEmpty
    [] raw \in {"status", "payload"} -> ResHttp
    [] OTHER -> Thrown

\* getCompletion from the fetch on: the result it returns for each thing the network does
getCompletionResult(raw) ==
  CASE raw = "content" -> ResOk               \* value: content.trim()
    [] raw = "blank" -> ResEmpty              \* choices missing or blank: value ''
    [] raw = "status" -> ResHttp              \* !response.ok
    [] raw = "payload" -> ResHttp             \* data.error
    [] raw = "malformed" -> ResHttp           \* response.json() throws: error.message
    [] raw = "transport" -> ResHttp           \* fetch rejects: error.message
    [] raw = "nomessage" -> ResNoMessage      \* error.message is ''
    [] raw = "nonerror" -> ResHttp            \* 'Unknown error occurred'
    [] raw = "abort" -> ResRequestCancelled   \* error.name === 'AbortError'

\* what a pending getCompletion can return
Outcomes(aborted) == {getCompletionResult(raw) : raw \in FetchOutcomes(aborted)}

\* --------------------------------------------------------------- scheduler
QueuedIdx(run) == {i \in DOMAIN run.tasks : run.tasks[i].pc = "queued"}

FirstOf(S) == CHOOSE i \in S : \A j \in S : i <= j

\* a limiter that starts every queued function at once
SlotFreeUncapped(run) == run.active < concurrency + numRows

\* p-limit starts a queued function only while activeCount < concurrency
SlotFree(run) == run.active < concurrency

\* a next() that forgets to give the slot back
ReleaseSlotLeaked(a) == a

\* p-limit's next(): activeCount--
ReleaseSlot(a) == a - 1

\* a limited function that does not look at the signal
SignalAbortedIgnored(run) == FALSE

\* if (signal?.aborted)
SignalAborted(run) == run.aborted

\* a request made from the row and the column as they are when the task is dispatched
RequestOfLive(t) ==
  [model |-> TaskOptions(options).modelId, content |-> PromptOf(template, inputs[t.row]),
   temperature |-> TaskOptions(options).temperature,
   max_tokens |-> TaskOptions(options).maxTokens]

\* const request: OpenRouterRequest = {...}: the body of the POST
RequestOf(t) ==
  [model |-> t.opts.modelId, content |-> t.prompt,
   temperature |-> t.opts.temperature, max_tokens |-> t.opts.maxTokens]

\* a getCompletion that sends the request without looking for the API key
StartedTaskNoKeyCheck(t) ==
  [t EXCEPT !.started = @ + 1, !.fetched = @ + 1, !.pc = "inflight", !.res = NoResult,
            !.sent = RequestOf(t)]

\* a limited function that calls getCompletion without notifying onTaskStart
StartedTaskSilent(t) ==
  [t EXCEPT !.fetched = @ + 1,
            !.pc = IF apiKey THEN "inflight" ELSE "settled",
            !.res = IF apiKey THEN NoResult ELSE ResNoKey,
            !.sent = IF apiKey THEN RequestOf(t) ELSE NoRequest]

\* the limited function up to its first await: onTaskStart, then getCompletion is called,
\* which returns at once without a key, and sends the request otherwise (a task's prompt
\* is never blank)
StartedTask(t) ==
  [t EXCEPT !.started = @ + 1, !.fetched = @ + 1,
            !.pc = IF apiKey THEN "inflight" ELSE "settled",
            !.res = IF apiKey THEN NoResult ELSE ResNoKey,
            !.sent = IF apiKey THEN RequestOf(t) ELSE NoRequest]

\* the limited function returning 'Batch cancelled' without calling anything
CancelledTask(t) == [t EXCEPT !.pc = "returned", !.res = ResBatchCancelled]

\* a limited function that returns the result without calling onProgress
ReportedTaskSilent(t) == [t EXCEPT !.pc = "returned"]

\* the limited function after await getCompletion: onProgress(result); return result
ReportedTask(t) == [t EXCEPT !.reported = @ + 1, !.pc = "returned"]

AllDone(run) == \A i \in DOMAIN run.tasks : run.tasks[i].pc = "done"

\* a promise continuation of this run is ready to run
RunMicro(run) ==
  /\ run.pc = "batch"
  /\ \/ \E i \in DOMAIN run.tasks : run.tasks[i].pc \in {"settled", "returned"}
     \/ SlotFree(run) /\ QueuedIdx(run) # {}
     \/ AllDone(run)

MicroIdle ==
  /\ \A k \in DOMAIN runs : ~RunMicro(runs[k])
  /\ \A j \in DOMAIN singles : singles[j].pc # "settled"

\* ---------------------------------------------------------------- the store
\* stopCompute's abort(): the controller held by the store, if any, is aborted
AbortHeld(rs) == IF abortController # 0 THEN [rs EXCEPT ![abortController].aborted = TRUE] ELSE rs

\* rows of the column that are queued or running (recorded when Stop is clicked)
Unfinished == {r \in Rows : meta[r].state \in {"queued", "running"}}

NewRun(retry, forceAll) ==
  [pc |-> "import", retry |-> retry, forceAll |-> forceAll,
   snapMeta |-> meta, snapValues |-> values,
   snapProgress |-> computeProgress, snapHasProgress |-> hasProgress,
   snapInputs |-> inputs, snapTemplate |-> template, snapOptions |-> options,
   aborted |-> FALSE, tasks |-> <<>>, active |-> 0,
   stopped |-> FALSE, atStop |-> {}]

\* the snapshot (the closure's state) is dead once the tasks are built
NoSnapMeta == [r \in Rows |-> NoMeta]

NoSnapValues == [r \in Rows |-> Null]

NoSnapInputs == [r \in Rows |-> CellNull]

Built(run, tasks) ==
  [run EXCEPT !.pc = "batch", !.tasks = tasks, !.snapMeta = NoSnapMeta, !.snapValues = NoSnapValues,
              !.snapProgress = NoProgress, !.snapHasProgress = FALSE,
              !.snapInputs = NoSnapInputs, !.snapTemplate = <<>>, !.snapOptions = NoOverrides]

\* a startCompute invocation that has returned: nothing of it is live any more
Returned ==
  [pc |-> "done", retry |-> FALSE, forceAll |-> FALSE,
   snapMeta |-> NoSnapMeta, snapValues |-> NoSnapValues,
   snapProgress |-> NoProgress, snapHasProgress |-> FALSE,
   snapInputs |-> NoSnapInputs, snapTemplate |-> <<>>, snapOptions |-> NoOverrides,
   aborted |-> FALSE, tasks |-> <<>>, active |-> 0,
   stopped |-> FALSE, atStop |-> {}]

\* startCompute up to its first await (the dynamic imports)
StartComputeBegin(retry, forceAll) ==
  /\ MicroIdle
  /\ cmds < MaxCmds
  /\ cmds' = cmds + 1
  /\ IF ~currentSheet
     THEN \* if (!state.currentSheet) return;
          /\ isComputing' = TRUE
          /\ abortController' = Len(runs) + 1
          /\ runs' = Append(runs, Returned)
          /\ UNCHANGED <<computeProgress, hasProgress, otherProgress>>
     ELSE IF columnKind # "ai"
     THEN \* column not found or not an AI column: both flags are reset
          /\ isComputing' = FALSE
          /\ abortController' = 0
          /\ runs' = Append(runs, Returned)
          /\ UNCHANGED <<computeProgress, hasProgress, otherProgress>>
     ELSE /\ isComputing' = TRUE
          /\ abortController' = Len(runs) + 1
          /\ computeProgress' = InitialProgress(ToProcess(retry, forceAll, meta, values))
          /\ hasProgress' = TRUE
          /\ runs' = Append(runs, NewRun(retry, forceAll))
          /\ otherProgress' = OtherEntries(otherProgress)
  /\ saveCall' = NoSave
  /\ UNCHANGED <<meta, values, singles, alert, config>>

\* startCompute after the imports: parse, build the tasks, call batchCompletions
StartComputeBuild(k) ==
  /\ MicroIdle
  /\ runs[k].pc = "import"
  /\ LET run == runs[k]
         sel == RowsToCompute(run.retry, run.forceAll, run.snapMeta, run.snapValues)
         tasks == BuildTasks(run, sel)
     IN  IF ParseFails
         THEN /\ alert' = ErrParse
              /\ isComputing' = FALSE
              /\ abortController' = 0
              /\ runs' = [runs EXCEPT ![k] = Returned]
              /\ saveCall' = NoSave
              /\ UNCHANGED <<meta, values>>
         ELSE /\ alert' = alert
              /\ meta' = BuildMeta(meta, sel)
              /\ values' = BuildValues(values, sel)
              /\ saveCall' = SaveCall(FALSE, Cardinality({r \in sel : promptBlank[r]}))
              /\ IF Len(tasks) = 0
                 THEN /\ isComputing' = FALSE
                      /\ abortController' = 0
                      /\ runs' = [runs EXCEPT ![k] = Returned]
                 ELSE /\ runs' = [runs EXCEPT ![k] = Built(run, tasks)]
                      /\ UNCHANGED <<isComputing, abortController>>
  /\ UNCHANGED <<computeProgress, hasProgress, singles, cmds, otherProgress, config>>

\* p-limit runs the next queued function, up to its first await
Dispatch(k) ==
  /\ runs[k].pc = "batch"
  /\ SlotFree(runs[k])
  /\ QueuedIdx(runs[k]) # {}
  /\ LET run == runs[k]
         i == FirstOf(QueuedIdx(run))
         t == run.tasks[i]
     IN  IF SignalAborted(run)
         THEN /\ runs' = [runs EXCEPT ![k].active = @ + 1, ![k].tasks[i] = CancelledTask(t)]
              /\ UNCHANGED <<meta, computeProgress, hasProgress, otherProgress>>
         ELSE /\ runs' = [runs EXCEPT ![k].active = @ + 1, ![k].tasks[i] = StartedTask(t)]
              /\ meta' = onTaskStartMeta(meta, t.row)
              /\ computeProgress' = onTaskStartProgress(currentProgress)
              /\ hasProgress' = TRUE
              /\ otherProgress' = OtherEntries(otherProgress)
  /\ saveCall' = NoSave
  /\ UNCHANGED <<values, isComputing, abortController, singles, cmds, alert, config>>

\* the fetch of a dispatched task settles
Respond(k, i) ==
  /\ MicroIdle
  /\ runs[k].pc = "batch"
  /\ runs[k].tasks[i].pc = "inflight"
  /\ \E res \in Outcomes(runs[k].aborted) :
       runs' = [runs EXCEPT ![k].tasks[i].pc = "settled", ![k].tasks[i].res = res]
  /\ saveCall' = NoSave
  /\ UNCHANGED <<meta, values, isComputing, abortController, computeProgress, hasProgress,
                 singles, cmds, alert, otherProgress, config>>

\* the limited function resumes after await getCompletion: onProgress(result)
TaskContinue(k, i) ==
  /\ runs[k].pc = "batch"
  /\ runs[k].tasks[i].pc = "settled"
  /\ LET t == runs[k].tasks[i]
     IN  /\ meta' = onResultMeta(meta, t.row, t.res)
         /\ values' = onResultValues(values, t.row, t.res)
         /\ computeProgress' = onResultProgress(currentProgress, t.res)
         /\ hasProgress' = TRUE
         /\ otherProgress' = OtherEntries(otherProgress)
         /\ runs' = [runs EXCEPT ![k].tasks[i] = ReportedTask(t)]
         /\ saveCall' = SaveCall(OnResultSaves(currentProgress), IF IsError(t.res) THEN 0 ELSE 1)
  /\ UNCHANGED <<isComputing, abortController, singles, cmds, alert, config>>

\* p-limit's next() after the limited function's promise resolved
PLimitNext(k, i) ==
  /\ runs[k].pc = "batch"
  /\ runs[k].tasks[i].pc = "returned"
  /\ runs' = [runs EXCEPT ![k].active = ReleaseSlot(@), ![k].tasks[i].pc = "done",
                          ![k].tasks[i].res = NoResult]
  /\ saveCall' = NoSave
  /\ UNCHANGED <<meta, values, isComputing, abortController, computeProgress, hasProgress,
                 singles, cmds, alert, otherProgress, config>>

\* Promise.all resolved: startCompute's finally block, stopCompute() then saveSheet()
Finally(k) ==
  /\ runs[k].pc = "batch"
  /\ AllDone(runs[k])
  /\ runs' = [AbortHeld(runs) EXCEPT ![k] = Returned]
  /\ isComputing' = FALSE
  /\ abortController' = 0
  /\ saveCall' = SaveCall(TRUE, 0)
  /\ UNCHANGED <<meta, values, computeProgress, hasProgress, singles, cmds, alert, otherProgress, config>>

\* a stopCompute that aborts the controller and clears isComputing but keeps the
\* controller in the store
StopKeepsController ==
  /\ MicroIdle
  /\ cmds < MaxCmds
  /\ isComputing
  /\ cmds' = cmds + 1
  /\ runs' = IF abortController # 0
             THEN [AbortHeld(runs) EXCEPT ![abortController].stopped = TRUE,
                                          ![abortController].atStop = Unfinished]
             ELSE runs
  /\ isComputing' = FALSE
  /\ abortController' = abortController
  /\ saveCall' = NoSave
  /\ UNCHANGED <<meta, values, computeProgress, hasProgress, singles, alert, otherProgress, config>>

\* the Stop button (shown while isComputing): stopCompute()
Stop ==
  /\ MicroIdle
  /\ cmds < MaxCmds
  /\ isComputing
  /\ cmds' = cmds + 1
  /\ runs' = IF abortController # 0
             THEN [AbortHeld(runs) EXCEPT ![abortController].stopped = TRUE,
                                          ![abortController].atStop = Unfinished]
             ELSE runs
  /\ isComputing' = FALSE
  /\ abortController' = 0
  /\ saveCall' = NoSave
  /\ UNCHANGED <<meta, values, computeProgress, hasProgress, singles, alert, otherProgress, config>>

\* ------------------------------------------------------- single-cell compute
\* computeSingleCell up to await getCompletion(task): no signal is passed.  What it reads
\* after its dynamic imports (the formula, the row's values) does not change here, so
\* the imports are not a separate step
ComputeCell(r) ==
  /\ MicroIdle
  /\ cmds < MaxCmds
  /\ meta[r].state # "running"          \* the menu item is disabled on a running cell
  /\ cmds' = cmds + 1
  /\ IF ParseFails
     THEN /\ meta' = updateCellState(meta, r, "error", ErrParse)
          /\ saveCall' = NoSave
          /\ UNCHANGED <<values, singles>>
     ELSE IF promptBlank[r]
     THEN /\ meta' = updateCellState(updateCellState(meta, r, "running", NoError), r, "done", NoError)
          /\ values' = updateCell(values, r, "")
          /\ saveCall' = SaveCall(FALSE, 1)
          /\ UNCHANGED singles
     ELSE /\ meta' = updateCellState(meta, r, "running", NoError)
          /\ saveCall' = NoSave
          /\ singles' = Append(singles, [row |-> r, opts |-> TaskOptions(options),
                                         pc |-> IF apiKey THEN "inflight" ELSE "settled",
                                         res |-> IF apiKey THEN NoResult ELSE ResNoKey])
          /\ UNCHANGED values
  /\ UNCHANGED <<isComputing, abortController, computeProgress, hasProgress, runs, alert, otherProgress, config>>

\* the signal of a single-cell request is aborted: getCompletion(task) is called without
\* a signal, so there is none to abort
SingleAborted(s) == FALSE

\* the fetch of a single-cell compute settles
SingleRespond(j) ==
  /\ MicroIdle
  /\ singles[j].pc = "inflight"
  /\ \E res \in Outcomes(SingleAborted(singles[j])) :
       singles' = [singles EXCEPT ![j].pc = "settled", ![j].res = res]
  /\ saveCall' = NoSave
  /\ UNCHANGED <<meta, values, isComputing, abortController, computeProgress, hasProgress,
                 runs, cmds, alert, otherProgress, config>>

\* computeSingleCell resumes after await getCompletion
SingleContinue(j) ==
  /\ singles[j].pc = "settled"
  /\ LET s == singles[j]
     IN  /\ meta' = onResultMeta(meta, s.row, s.res)
         /\ values' = onResultValues(values, s.row, s.res)
         /\ saveCall' = SaveCall(TRUE, IF IsError(s.res) THEN 0 ELSE 1)
  /\ singles' = [n \in 1..(Len(singles) - 1) |-> IF n < j THEN singles[n] ELSE singles[n + 1]]
  /\ UNCHANGED <<isComputing, abortController, computeProgress, hasProgress, runs, cmds, alert, otherProgress, config>>

\* the cell menu's Clear Cell
ClearCell(r) ==
  /\ MicroIdle
  /\ cmds < MaxCmds
  /\ cmds' = cmds + 1
  /\ values' = updateCell(values, r, "")
  /\ meta' = updateCellState(meta, r, "idle", NoError)
  /\ saveCall' = SaveCall(FALSE, 1)
  /\ UNCHANGED <<isComputing, abortController, computeProgress, hasProgress, runs, singles, alert, otherProgress, config>>

\* ------------------------------------------------------------ specification
\* the template of =AI("{{A}}"): a row's prompt is its cell in column A
PlainTemplate == <<Open, Open, "A", Close, Close>>

\* the entry a finished run on a second column left behind
OtherEntry == [total |-> 1, queued |-> 0, running |-> 0, done |-> 1, failed |-> 0]

Init ==
  /\ currentSheet = TRUE
  /\ columnKind = "ai"
  /\ numRows = NumRows
  /\ meta = [r \in Rows |-> NoMeta]
  /\ values = [r \in Rows |-> Null]
  /\ isComputing = FALSE
  /\ abortController = 0
  /\ computeProgress = NoProgress
  /\ hasProgress = FALSE
  /\ runs = <<>>
  /\ singles = <<>>
  /\ cmds = 0
  /\ alert = NoAlert
  /\ apiKey \in BOOLEAN
  /\ formulaOk \in BOOLEAN
  /\ promptBlank \in [Rows -> BOOLEAN]
  /\ concurrency \in 1..NumRows      \* a larger setting behaves as NumRows does
  /\ options = NoOverrides
  /\ template = PlainTemplate
  /\ inputs = [r \in Rows |-> IF promptBlank[r] THEN Text(<<>>) ELSE Text(<<"x">>)]
  /\ maxInputChars = 0
  /\ otherProgress = OtherEntry
  /\ saveCall = NoSave
  /\ formula = <<>>
  /\ parsed = NotParsed
  /\ rendered = NotRendered

\* the header menu: Compute Unprocessed (also the cell menu's Compute Entire Column)
Compute == StartComputeBegin(FALSE, FALSE)

\* the header menu: Retry Failed
Retry == StartComputeBegin(TRUE, FALSE)

\* the header menu: Recompute All
Recompute == StartComputeBegin(FALSE, TRUE)

Next ==
  \/ Compute
  \/ Retry
  \/ Recompute
  \/ Stop
  \/ \E r \in Rows : ComputeCell(r)
  \/ \E r \in Rows : ClearCell(r)
  \/ \E k \in DOMAIN runs : StartComputeBuild(k)
  \/ \E k \in DOMAIN runs : Dispatch(k)
  \/ \E k \in DOMAIN runs : \E i \in DOMAIN runs[k].tasks : Respond(k, i)
  \/ \E k \in DOMAIN runs : \E i \in DOMAIN runs[k].tasks : TaskContinue(k, i)
  \/ \E k \in DOMAIN runs : \E i \in DOMAIN runs[k].tasks : PLimitNext(k, i)
  \/ \E k \in DOMAIN runs : Finally(k)
  \/ \E j \in DOMAIN singles : SingleRespond(j)
  \/ \E j \in DOMAIN singles : SingleContinue(j)

Spec == Init /\ [][Next]_vars

\* ------------------------------------------------------- one run at a time
\* every earlier startCompute invocation has returned
NoLiveRun == \A k \in DOMAIN runs : runs[k].pc = "done"

SerialCompute == NoLiveRun /\ Compute

SerialRetry == NoLiveRun /\ Retry

SerialRecompute == NoLiveRun /\ Recompute

\* the user starts a run only when no earlier run is unfinished; everything else as in Next
NextSerial ==
  \/ SerialCompute
  \/ SerialRetry
  \/ SerialRecompute
  \/ Stop
  \/ \E r \in Rows : ComputeCell(r)
  \/ \E r \in Rows : ClearCell(r)
  \/ \E k \in DOMAIN runs : StartComputeBuild(k)
  \/ \E k \in DOMAIN runs : Dispatch(k)
  \/ \E k \in DOMAIN runs : \E i \in DOMAIN runs[k].tasks : Respond(k, i)
  \/ \E k \in DOMAIN runs : \E i \in DOMAIN runs[k].tasks : TaskContinue(k, i)
  \/ \E k \in DOMAIN runs : \E i \in DOMAIN runs[k].tasks : PLimitNext(k, i)
  \/ \E k \in DOMAIN runs : Finally(k)
  \/ \E j \in DOMAIN singles : SingleRespond(j)
  \/ \E j \in DOMAIN singles : SingleContinue(j)

SerialSpec == Init /\ [][NextSerial]_vars

\* a step of a run that the event loop takes by itself: the imports resolve, promise
\* continuations run, and (the assumption of the termination claim) every pending
\* fetch settles
RunStep ==
  \/ \E k \in DOMAIN runs : StartComputeBuild(k)
  \/ \E k \in DOMAIN runs : Dispatch(k)
  \/ \E k \in DOMAIN runs : \E i \in DOMAIN runs[k].tasks : Respond(k, i)
  \/ \E k \in DOMAIN runs : \E i \in DOMAIN runs[k].tasks : TaskContinue(k, i)
  \/ \E k \in DOMAIN runs : \E i \in DOMAIN runs[k].tasks : PLimitNext(k, i)
  \/ \E k \in DOMAIN runs : Finally(k)
  \/ \E j \in DOMAIN singles : SingleContinue(j)

FairSpec == SerialSpec /\ WF_vars(RunStep)

\* ------------------------------------------------- building tasks, by options
\* a sheet whose formula parses and whose prompts are not blank, with every combination
\* of formula options, column overrides and defaults
InitOptions ==
  /\ currentSheet = TRUE
  /\ columnKind = "ai"
  /\ numRows = NumRows
  /\ meta = [r \in Rows |-> NoMeta]
  /\ values = [r \in Rows |-> Null]
  /\ isComputing = FALSE
  /\ abortController = 0
  /\ computeProgress = NoProgress
  /\ hasProgress = FALSE
  /\ runs = <<>>
  /\ singles = <<>>
  /\ cmds = 0
  /\ alert = NoAlert
  /\ apiKey = TRUE
  /\ formulaOk = TRUE
  /\ promptBlank = [r \in Rows |-> FALSE]
  /\ concurrency = 1
  /\ options \in OptionChoices
  /\ template = PlainTemplate
  /\ inputs = [r \in Rows |-> Text(<<"x">>)]
  /\ maxInputChars = 0
  /\ otherProgress = OtherEntry
  /\ saveCall = NoSave
  /\ formula = <<>>
  /\ parsed = NotParsed
  /\ rendered = NotRendered

\* the two operations that build tasks: a run up to its call of batchCompletions, and
\* computeSingleCell up to its call of getCompletion
NextOptions ==
  \/ SerialCompute
  \/ \E k \in DOMAIN runs : StartComputeBuild(k)
  \/ \E r \in Rows : ComputeCell(r)

OptionsSpec == InitOptions /\ [][NextOptions]_vars

\* ------------------------------------------------ edits while a run is going
\* =AI( content )
Wrap(content) == <<"=", "A", "I", "(">> \o content \o <<")">>

\* =AI("a{{A}}")
FormulaA == Wrap(<<Quote, "a", Open, Open, "A", Close, Close, Quote>>)

\* =AI("b{{A}}", {"temperature":0.5})
FormulaB ==
  Wrap(<<Quote, "b", Open, Open, "A", Close, Close, Quote, Comma, Space, "{\"temperature\":0.5}">>)

\* the column as updateColumn(id, { formula }) leaves it, seen through parseFormula
WithFormula(o, f) ==
  [o EXCEPT !.optModel = parseFormula(f).options.model,
            !.optTemp = parseFormula(f).options.temperature,
            !.optMax = parseFormula(f).options.maxTokens]

\* the formula bar saves a text cell: updateCell(rowId, columnId, editValue || null)
EditCell(r, text) ==
  /\ MicroIdle
  /\ cmds < MaxCmds
  /\ cmds' = cmds + 1
  /\ inputs' = [inputs EXCEPT ![r] = IF text = <<>> THEN CellNull ELSE Text(text)]
  /\ saveCall' = SaveCall(FALSE, 1)
  /\ UNCHANGED <<meta, values, isComputing, abortController, computeProgress, hasProgress,
                 runs, singles, alert, apiKey, formulaOk, promptBlank, concurrency, options,
                 numRows, template, maxInputChars, otherProgress, formula, parsed, rendered,
                 currentSheet, columnKind>>

\* the formula bar saves the AI column's formula (one that parses, with text next to its
\* placeholder): updateColumn(id, { formula: editValue })
EditFormula(f) ==
  /\ MicroIdle
  /\ cmds < MaxCmds
  /\ f # formula
  /\ cmds' = cmds + 1
  /\ formula' = f
  /\ template' = parseFormula(f).template
  /\ options' = WithFormula(options, f)
  /\ saveCall' = SaveCall(FALSE, 1)
  /\ UNCHANGED <<meta, values, isComputing, abortController, computeProgress, hasProgress,
                 runs, singles, alert, apiKey, formulaOk, promptBlank, concurrency,
                 numRows, inputs, maxInputChars, otherProgress, parsed, rendered,
                 currentSheet, columnKind>>

\* a sheet with a key and formula =AI("a{{A}}"), every row's cell in column A holding x,
\* computed one task at a time
InitEdit ==
  /\ currentSheet = TRUE
  /\ columnKind = "ai"
  /\ numRows = NumRows
  /\ meta = [r \in Rows |-> NoMeta]
  /\ values = [r \in Rows |-> Null]
  /\ isComputing = FALSE
  /\ abortController = 0
  /\ computeProgress = NoProgress
  /\ hasProgress = FALSE
  /\ runs = <<>>
  /\ singles = <<>>
  /\ cmds = 0
  /\ alert = NoAlert
  /\ apiKey = TRUE
  /\ formulaOk = TRUE
  /\ promptBlank = [r \in Rows |-> FALSE]
  /\ concurrency = 1
  /\ formula = FormulaA
  /\ template = parseFormula(FormulaA).template
  /\ options = WithFormula(NoOverrides, FormulaA)
  /\ inputs = [r \in Rows |-> Text(<<"x">>)]
  /\ maxInputChars = 0
  /\ otherProgress = OtherEntry
  /\ saveCall = NoSave
  /\ parsed = NotParsed
  /\ rendered = NotRendered

\* a run, and the user editing the text column and the formula while it goes on
NextEdit ==
  \/ SerialCompute
  \/ \E r \in Rows : \E text \in {<<>>, <<"y">>} : EditCell(r, text)
  \/ \E f \in {FormulaA, FormulaB} : EditFormula(f)
  \/ \E k \in DOMAIN runs : StartComputeBuild(k)
  \/ \E k \in DOMAIN runs : Dispatch(k)
  \/ \E k \in DOMAIN runs : \E i \in DOMAIN runs[k].tasks : Respond(k, i)
  \/ \E k \in DOMAIN runs : \E i \in DOMAIN runs[k].tasks : TaskContinue(k, i)
  \/ \E k \in DOMAIN runs : \E i \in DOMAIN runs[k].tasks : PLimitNext(k, i)
  \/ \E k \in DOMAIN runs : Finally(k)

EditSpec == InitEdit /\ [][NextEdit]_vars

\* ------------------------------------------------- one run over a long sheet
\* a sheet of as many rows as results make a save period, no prompt blank, computed one
\* task at a time
InitFlush ==
  /\ currentSheet = TRUE
  /\ columnKind = "ai"
  /\ numRows = SavePeriod
  /\ meta = [r \in Rows |-> NoMeta]
  /\ values = [r \in Rows |-> Null]
  /\ isComputing = FALSE
  /\ abortController = 0
  /\ computeProgress = NoProgress
  /\ hasProgress = FALSE
  /\ runs = <<>>
  /\ singles = <<>>
  /\ cmds = 0
  /\ alert = NoAlert
  /\ apiKey \in BOOLEAN
  /\ formulaOk = TRUE
  /\ promptBlank = [r \in Rows |-> FALSE]
  /\ concurrency = 1
  /\ options = NoOverrides
  /\ template = PlainTemplate
  /\ inputs = [r \in Rows |-> Text(<<"x">>)]
  /\ maxInputChars = 0
  /\ otherProgress = OtherEntry
  /\ saveCall = NoSave
  /\ formula = <<>>
  /\ parsed = NotParsed
  /\ rendered = NotRendered

\* the first run of the sheet
FirstCompute == runs = <<>> /\ Compute

\* the sheet's first run, which the user may stop
NextFlush ==
  \/ FirstCompute
  \/ Stop
  \/ \E k \in DOMAIN runs : StartComputeBuild(k)
  \/ \E k \in DOMAIN runs : Dispatch(k)
  \/ \E k \in DOMAIN runs : \E i \in DOMAIN runs[k].tasks : Respond(k, i)
  \/ \E k \in DOMAIN runs : \E i \in DOMAIN runs[k].tasks : TaskContinue(k, i)
  \/ \E k \in DOMAIN runs : \E i \in DOMAIN runs[k].tasks : PLimitNext(k, i)
  \/ \E k \in DOMAIN runs : Finally(k)

FlushSpec == InitFlush /\ [][NextFlush]_vars

\* ----------------------------------------------------- the formula editor
\* the sequences over chars of length at most n
SeqsUpTo(chars, n) == UNION {[1..m -> chars] : m \in 0..n}

Range(s) == {s[i] : i \in DOMAIN s}

\* what is typed between the opening quote of the template and the end of the formula
TemplateBodies == SeqsUpTo({"a", "b", Backslash, Quote}, MaxTemplateLen)

\* what is typed after the comma: nothing, a blank, a JSON document, text that is no JSON
OptionTexts ==
  {<<>>, <<Space>>}
    \cup {<<j>> : j \in JsonTexts \cup {BadJson}}
    \cup {<<Space, j, Space>> : j \in JsonTexts \cup {BadJson}}

\* what follows the template's characters
Tails ==
  {<<>>, <<Quote>>, <<Quote, Space>>, <<Quote, "x">>}
    \cup {<<Quote, Comma>> \o o : o \in OptionTexts}

\* the formulas typed into the editor
FormulaInputs ==
  {Wrap(<<Quote>> \o b \o t) : b \in TemplateBodies, t \in Tails}
    \cup {Wrap(<<>>), Wrap(<<Space>>), Wrap(<<"a">>)}
    \cup {<<"=", "A", "I", "(", Quote, "a", Quote>>, <<"A", "I", "(", Quote, "a", Quote, ")">>}

\* the preview of the formula editor parses what was typed: parseFormula(formula)
ParseFormula ==
  /\ parsed = NotParsed
  /\ parsed' = parseFormula(formula)
  /\ UNCHANGED <<meta, values, isComputing, abortController, computeProgress, hasProgress,
                 runs, singles, cmds, alert, otherProgress, saveCall, apiKey, formulaOk,
                 promptBlank, concurrency, options, numRows, inputs, template,
                 maxInputChars, formula, rendered,
                 currentSheet, columnKind>>

\* a sheet of one row, idle, and a formula typed into the editor
InitParse ==
  /\ currentSheet = TRUE
  /\ columnKind = "ai"
  /\ numRows = 1
  /\ meta = [r \in Rows |-> NoMeta]
  /\ values = [r \in Rows |-> Null]
  /\ isComputing = FALSE
  /\ abortController = 0
  /\ computeProgress = NoProgress
  /\ hasProgress = FALSE
  /\ runs = <<>>
  /\ singles = <<>>
  /\ cmds = 0
  /\ alert = NoAlert
  /\ apiKey = TRUE
  /\ formulaOk = TRUE
  /\ promptBlank = [r \in Rows |-> FALSE]
  /\ concurrency = 1
  /\ options = NoOverrides
  /\ template = PlainTemplate
  /\ inputs = [r \in Rows |-> Text(<<"x">>)]
  /\ maxInputChars = 0
  /\ otherProgress = OtherEntry
  /\ saveCall = NoSave
  /\ formula \in FormulaInputs
  /\ parsed = NotParsed
  /\ rendered = NotRendered

NextParse == ParseFormula

ParseSpec == InitParse /\ [][NextParse]_vars

\* the names typed between braces: column A, which exists, and G, which does not, bare
\* and with blanks around
Names == {ColumnName, <<Space>> \o ColumnName \o <<Space>>, <<"G">>, <<Space, "G", Space>>}

\* {{name}}
Placeholder(name) == <<Open, Open>> \o name \o <<Close, Close>>

\* \{{
Escaped == <<Backslash, Open, Open>>

\* the pieces a template is typed from: a placeholder, \{{, {{, }}, a letter
Pieces == {Placeholder(n) : n \in Names} \cup {Escaped, <<Open, Open>>, <<Close, Close>>, <<"G">>}

RECURSIVE Flatten(_)
Flatten(ps) == IF ps = <<>> THEN <<>> ELSE Head(ps) \o Flatten(Tail(ps))

\* the templates of at most n pieces
Templates(n) == {Flatten(ps) : ps \in SeqsUpTo(Pieces, n)}

\* the cell of column A in the previewed row: null, one character, two characters
CellInputs == {CellNull, Text(<<"v">>), Text(<<"v", "w">>)}

\* settings.maxInputChars: undefined, 0, a limit
LimitInputs == {Absent} \cup 0..MaxLimit

\* the preview of the formula editor renders the template against the row:
\* renderTemplate(parsed.template, row, columnsByName, store.settings.maxInputChars)
RenderPreview ==
  /\ rendered = NotRendered
  /\ rendered' = renderTemplate(template, inputs[1], maxInputChars)
  /\ UNCHANGED <<meta, values, isComputing, abortController, computeProgress, hasProgress,
                 runs, singles, cmds, alert, otherProgress, saveCall, apiKey, formulaOk,
                 promptBlank, concurrency, options, numRows, inputs, template,
                 maxInputChars, formula, parsed,
                 currentSheet, columnKind>>

\* a sheet of one row, idle, and a template in the editor: any template with no limit
\* on the input, and a short template with any limit
InitRender ==
  /\ currentSheet = TRUE
  /\ columnKind = "ai"
  /\ numRows = 1
  /\ meta = [r \in Rows |-> NoMeta]
  /\ values = [r \in Rows |-> Null]
  /\ isComputing = FALSE
  /\ abortController = 0
  /\ computeProgress = NoProgress
  /\ hasProgress = FALSE
  /\ runs = <<>>
  /\ singles = <<>>
  /\ cmds = 0
  /\ alert = NoAlert
  /\ apiKey = TRUE
  /\ formulaOk = TRUE
  /\ promptBlank = [r \in Rows |-> FALSE]
  /\ concurrency = 1
  /\ options = NoOverrides
  /\ inputs \in [Rows -> CellInputs]
  /\ \/ template \in Templates(MaxPieces) /\ maxInputChars = 0
     \/ template \in Templates(ShortPieces) /\ maxInputChars \in LimitInputs
  /\ otherProgress = OtherEntry
  /\ saveCall = NoSave
  /\ formula = <<>>
  /\ parsed = NotParsed
  /\ rendered = NotRendered

NextRender == RenderPreview

RenderSpec == InitRender /\ [][NextRender]_vars

\* ------------------------------------- a run beside a single-cell compute
\* a sheet with a key on which Compute Cell was chosen for row 1: the cell is running
\* and its request is pending; cmds counts the commands after that one
InitStop ==
  /\ currentSheet = TRUE
  /\ columnKind = "ai"
  /\ numRows = NumRows
  /\ meta = [r \in Rows |-> IF r = 1 THEN [state |-> "running", error |-> NoError] ELSE NoMeta]
  /\ values = [r \in Rows |-> Null]
  /\ isComputing = FALSE
  /\ abortController = 0
  /\ computeProgress = NoProgress
  /\ hasProgress = FALSE
  /\ runs = <<>>
  /\ singles = <<[row |-> 1, opts |-> TaskOptions(NoOverrides), pc |-> "inflight",
                  res |-> NoResult]>>
  /\ cmds = 0
  /\ alert = NoAlert
  /\ apiKey = TRUE
  /\ formulaOk = TRUE
  /\ promptBlank \in [Rows -> BOOLEAN] /\ ~promptBlank[1]
  /\ concurrency \in 1..NumRows
  /\ options = NoOverrides
  /\ template = PlainTemplate
  /\ inputs = [r \in Rows |-> IF promptBlank[r] THEN Text(<<>>) ELSE Text(<<"x">>)]
  /\ maxInputChars = 0
  /\ otherProgress = OtherEntry
  /\ saveCall = NoSave
  /\ formula = <<>>
  /\ parsed = NotParsed
  /\ rendered = NotRendered

StopSpec == InitStop /\ [][NextSerial]_vars

\* ------------------------------------------------------------------ claims
Tasks(k) == runs[k].tasks

\* tasks whose getCompletion call was started and whose limited function has not resumed
InFlight(run) ==
  Cardinality({i \in DOMAIN run.tasks : run.tasks[i].pc \in {"inflight", "settled"}})

\* C1: in every state of a batchCompletions call the number of tasks whose getCompletion
\* was started and has not returned is at most the concurrency N, also when more than N
\* tasks were given; the slots in use never exceed N.
C1_ConcurrencyCap ==
  \A k \in DOMAIN runs :
    /\ InFlight(runs[k]) <= concurrency
    /\ runs[k].active <= concurrency

\* a run with every slot busy while a further task waits in the queue
C1_Witness ==
  \E k \in DOMAIN runs :
    /\ InFlight(runs[k]) = concurrency
    /\ QueuedIdx(runs[k]) # {}

C3_NoDispatchAfterAbort ==
  [][\A k \in DOMAIN runs :
       (runs[k].pc = "batch" /\ runs[k].aborted /\ runs'[k].pc = "batch")
         => \A i \in DOMAIN Tasks(k) :
              /\ runs'[k].tasks[i].started = Tasks(k)[i].started
              /\ runs'[k].tasks[i].fetched = Tasks(k)[i].fetched
              /\ (Tasks(k)[i].pc = "queued" /\ runs'[k].tasks[i].pc # "queued")
                   => /\ runs'[k].tasks[i].res = ResBatchCancelled
                      /\ runs'[k].tasks[i].res.value = ""
                      /\ meta'[Tasks(k)[i].row] = meta[Tasks(k)[i].row]]_vars

\* a task that was short-circuited because the signal was aborted before its turn
C3_Witness ==
  \E k \in DOMAIN runs : \E i \in DOMAIN Tasks(k) :
    /\ Tasks(k)[i].res = ResBatchCancelled
    /\ Tasks(k)[i].started = 0

\* C4: every run whose batch was started returns (its Promise.all resolves and the
\* finally block runs), with or without a stop, given that every pending fetch settles.
C4_RunTerminates ==
  \A k \in 1..MaxCmds :
    (k \in DOMAIN runs /\ runs[k].pc = "batch") ~> (k \in DOMAIN runs /\ runs[k].pc = "done")

\* a stopped run of two or more tasks whose Promise.all has resolved
C4_Witness ==
  \E k \in DOMAIN runs :
    /\ runs[k].pc = "batch" /\ AllDone(runs[k])
    /\ runs[k].stopped
    /\ Len(Tasks(k)) >= 2

\* C5 as claimed: when a stopped run has unwound, every cell that was queued or running
\* when Stop was requested is in state queued.
C5_StoppedCellsQueued ==
  \A k \in DOMAIN runs :
    (runs[k].pc = "batch" /\ AllDone(runs[k]) /\ runs[k].stopped)
      => \A r \in runs[k].atStop : meta[r].state = "queued"

\* C6 as claimed: the column's counters always add up to total.
C6_ProgressSum ==
  hasProgress =>
    computeProgress.queued + computeProgress.running + computeProgress.done
      + computeProgress.failed = computeProgress.total

\* C8 as claimed: startCompute is never begun while an earlier run still has tasks that
\* have not produced their result.
C8_OneRunAtATime ==
  [][Len(runs') > Len(runs)
       => \A k \in DOMAIN runs : ~(runs[k].pc = "batch" /\ ~AllDone(runs[k]))]_vars

\* C7: for every task onTaskStart is invoked at most once, in the same synchronous step
\* in which its getCompletion call is made (so exactly once for a dispatched task), and
\* onResult is never invoked for a task whose onTaskStart has not been invoked.
C7_StartOnceBeforeResult ==
  \A k \in DOMAIN runs : \A i \in DOMAIN Tasks(k) :
    LET t == Tasks(k)[i]
    IN  /\ t.started <= 1
        /\ t.started = t.fetched
        /\ t.reported <= t.started
        /\ t.pc = "queued" => t.started = 0 /\ t.reported = 0
        /\ t.pc \in {"inflight", "settled"} => t.started = 1 /\ t.reported = 0

\* a task that went through onTaskStart, getCompletion and onResult, once each
C7_Witness ==
  \E k \in DOMAIN runs : \E i \in DOMAIN Tasks(k) :
    /\ Tasks(k)[i].started = 1
    /\ Tasks(k)[i].fetched = 1
    /\ Tasks(k)[i].reported = 1

\* the state the grid shows for a cell: one that has no metadata yet is shown as idle
StateOf(m) == IF m.state = NoCell THEN "idle" ELSE m.state

C10_RetrySelectsErrorRows ==
  [][/\ Retry =>
          /\ computeProgress'.total = Cardinality({r \in Rows : meta[r].state = "error"})
          /\ runs'[Len(runs')].snapMeta = meta
     /\ \A k \in DOMAIN runs :
          (StartComputeBuild(k) /\ runs[k].retry /\ formulaOk) =>
            LET E == {r \in Rows : runs[k].snapMeta[r].state = "error"}
            IN  /\ \A r \in E : meta'[r].state = IF promptBlank[r] THEN "done" ELSE "queued"
                /\ \A r \in Rows \ E : meta'[r] = meta[r] /\ values'[r] = values[r]
                /\ {runs'[k].tasks[i].row : i \in DOMAIN runs'[k].tasks}
                     = {r \in E : ~promptBlank[r]}]_vars

\* a retry run that built a task for an error row while another row, done, was left alone
C10_Witness ==
  \E k \in DOMAIN runs :
    /\ runs[k].retry
    /\ runs[k].pc = "batch"
    /\ Len(Tasks(k)) = 1
    /\ \E r \in Rows : r # Tasks(k)[1].row /\ meta[r].state = "done" /\ values[r] = "v"

\* C11: a default run takes its rows from the cells as they are at invocation: the rows
\* whose state is not done, or is done with an empty (or never written) value; its total
\* is their number and when its tasks are built exactly those rows are written and get a
\* task (unless blank), so a row that is done with a non-empty value is not touched.  A
\* force-all run counts and takes every row.
C11_DefaultSelectsUnprocessed ==
  [][/\ Compute =>
          /\ computeProgress'.total
               = Cardinality({r \in Rows : meta[r].state # "done" \/ values[r] \in {Null, ""}})
          /\ runs'[Len(runs')].snapMeta = meta
          /\ runs'[Len(runs')].snapValues = values
     /\ Recompute => computeProgress'.total = numRows
     /\ \A k \in DOMAIN runs :
          (StartComputeBuild(k) /\ ~runs[k].retry /\ formulaOk) =>
            LET U == IF runs[k].forceAll THEN Rows
                     ELSE {r \in Rows : \/ runs[k].snapMeta[r].state # "done"
                                        \/ runs[k].snapValues[r] \in {Null, ""}}
            IN  /\ \A r \in U : meta'[r].state = IF promptBlank[r] THEN "done" ELSE "queued"
                /\ \A r \in Rows \ U : meta'[r] = meta[r] /\ values'[r] = values[r]
                /\ {runs'[k].tasks[i].row : i \in DOMAIN runs'[k].tasks}
                     = {r \in U : ~promptBlank[r]}]_vars

\* a default run that took a row that was done with an empty value and left alone the
\* other row, done with a value
C11_Witness ==
  \E k \in DOMAIN runs :
    /\ ~runs[k].retry /\ ~runs[k].forceAll
    /\ runs[k].pc = "batch"
    /\ Len(Tasks(k)) = 1
    /\ values[Tasks(k)[1].row] = ""
    /\ \E r \in Rows : r # Tasks(k)[1].row /\ meta[r].state = "done" /\ values[r] = "v"

\* C12: when a run builds its tasks, a selected row whose rendered prompt is blank gets
\* no task, its value becomes the empty string and its state done; a selected row with
\* a non-blank prompt gets exactly one task.  No task of any run is for a blank row, so
\* no request is ever made for one.
C12_BlankPromptSkipped ==
  [][/\ \A k \in DOMAIN runs :
          (StartComputeBuild(k) /\ formulaOk) =>
            \A r \in RowsToCompute(runs[k].retry, runs[k].forceAll,
                                   runs[k].snapMeta, runs[k].snapValues) :
              LET mine == {i \in DOMAIN runs'[k].tasks : runs'[k].tasks[i].row = r}
              IN  IF promptBlank[r]
                  THEN /\ mine = {}
                       /\ values'[r] = ""
                       /\ meta'[r] = [state |-> "done", error |-> NoError]
                  ELSE /\ Cardinality(mine) = 1
                       /\ meta'[r].state = "queued"
                       /\ values'[r] = values[r]
     /\ \A k \in DOMAIN runs' : \A i \in DOMAIN runs'[k].tasks :
          ~promptBlank[runs'[k].tasks[i].row]]_vars

\* a run that built a task for one row and marked the other, blank, done with ""
C12_Witness ==
  \E k \in DOMAIN runs :
    /\ runs[k].pc = "batch"
    /\ Len(Tasks(k)) = 1
    /\ \E r \in Rows :
         /\ promptBlank[r]
         /\ meta[r] = [state |-> "done", error |-> NoError]
         /\ values[r] = ""

\* C13: when the column's formula does not parse, startCompute reports the error with an
\* alert and returns without building a task: no cell and no counter is written by a
\* callback, and no run ever holds a task, so nothing is started, fetched or reported.
C13_ParseErrorBuildsNothing ==
  [][/\ \A k \in DOMAIN runs :
          (StartComputeBuild(k) /\ ~formulaOk) =>
            /\ alert' = ErrParse
            /\ runs'[k].pc = "done"
            /\ runs'[k].tasks = <<>>
            /\ meta' = meta /\ values' = values
            /\ computeProgress' = computeProgress
     /\ ~formulaOk => \A k \in DOMAIN runs' : runs'[k].tasks = <<>>]_vars

\* a run on a malformed formula has returned after its alert
C13_Witness ==
  /\ ~formulaOk
  /\ alert = ErrParse
  /\ \E k \in DOMAIN runs : runs[k].pc = "done"

\* C14 as claimed: when a run on a malformed formula returns, it has changed no cell, and
\* the column's progress entry, isComputing and abortController are what they were before
\* the call (no other run being live, isComputing was false and abortController null).
C14_ParseErrorNoSideEffects ==
  [][\A k \in DOMAIN runs :
       (StartComputeBuild(k) /\ ~formulaOk) =>
         /\ meta' = meta /\ values' = values
         /\ hasProgress' = runs[k].snapHasProgress
         /\ computeProgress' = runs[k].snapProgress
         /\ isComputing' = FALSE
         /\ abortController' = 0]_vars

\* a ComputeResult: a value, and possibly an error string, which comes with value ''
ComputeResults ==
  {res \in [value : {"", "v"},
            error : {NoError, "", ErrNoKey, ErrHttp, ErrRequestCancelled, ErrBatchCancelled}] :
     res.error # NoError => res.value = ""}

FailureKinds ==
  {"status", "payload", "malformed", "transport", "nomessage", "nonerror", "abort"}

C16_NoCredentialFails ==
  [][~apiKey =>
       /\ \A k \in DOMAIN runs' : \A i \in DOMAIN runs'[k].tasks :
            runs'[k].tasks[i].pc # "inflight"
       /\ \A j \in DOMAIN singles' : singles'[j].pc # "inflight"
       /\ \A k \in DOMAIN runs : \A i \in DOMAIN Tasks(k) :
            /\ (Dispatch(k) /\ ~runs[k].aborted /\ i = FirstOf(QueuedIdx(runs[k]))) =>
                 /\ runs'[k].tasks[i].pc = "settled"
                 /\ runs'[k].tasks[i].res = [value |-> "", error |-> ErrNoKey]
            /\ TaskContinue(k, i) =>
                 /\ meta'[Tasks(k)[i].row] = [state |-> "error", error |-> ErrNoKey]
                 /\ values'[Tasks(k)[i].row] = values[Tasks(k)[i].row]
                 /\ computeProgress'.failed = computeProgress.failed + 1
                 /\ computeProgress'.done = computeProgress.done]_vars

\* without a credential a run has put a cell in state error and counted it as failed
C16_Witness ==
  /\ ~apiKey
  /\ computeProgress.failed >= 1
  /\ \E r \in Rows : meta[r] = [state |-> "error", error |-> ErrNoKey]
  /\ \E k \in DOMAIN runs : \E i \in DOMAIN Tasks(k) : Tasks(k)[i].reported = 1

C18_ResultMovesOneUnit ==
  [][\A k \in DOMAIN runs : \A i \in DOMAIN Tasks(k) :
       TaskContinue(k, i) =>
         LET t == Tasks(k)[i]
         IN  /\ computeProgress.running >= 1
             /\ computeProgress'.running = computeProgress.running - 1
             /\ computeProgress'.total = computeProgress.total
             /\ computeProgress'.queued = computeProgress.queued
             /\ IF t.res.error # NoError
                THEN /\ meta'[t.row] = [state |-> "error", error |-> t.res.error]
                     /\ values'[t.row] = values[t.row]
                     /\ computeProgress'.failed = computeProgress.failed + 1
                     /\ computeProgress'.done = computeProgress.done
                ELSE /\ meta'[t.row] = [state |-> "done", error |-> NoError]
                     /\ values'[t.row] = t.res.value
                     /\ computeProgress'.done = computeProgress.done + 1
                     /\ computeProgress'.failed = computeProgress.failed]_vars

\* C19 as claimed: a result that carries an error field, whatever the string and the
\* value, is a failure: the cell ends in state error, its value is not replaced, and
\* failed, not done, goes up by 1.
C19_ErrorFieldMeansFailure ==
  [][\A k \in DOMAIN runs : \A i \in DOMAIN Tasks(k) :
       (TaskContinue(k, i) /\ Tasks(k)[i].res.error # NoError) =>
         /\ meta'[Tasks(k)[i].row].state = "error"
         /\ values'[Tasks(k)[i].row] = values[Tasks(k)[i].row]
         /\ computeProgress'.failed = computeProgress.failed + 1
         /\ computeProgress'.done = computeProgress.done]_vars

\* the options of every task built so far, by a run or by a single-cell compute
BuiltOptions ==
  UNION {{Tasks(k)[i].opts : i \in DOMAIN Tasks(k)} : k \in DOMAIN runs}
    \cup {singles[j].opts : j \in DOMAIN singles}

\* C20 as claimed: each of model, temperature and maxTokens of a built task is the
\* formula's option when that is present, else the column's override when that is
\* present, else the default.
C20_OptionPrecedence ==
  \A t \in BuiltOptions :
    /\ t.modelId = IF options.optModel # Null THEN options.optModel
                   ELSE IF options.colModel # Null THEN options.colModel
                   ELSE options.defModel
    /\ t.temperature = IF options.optTemp # Absent THEN options.optTemp
                       ELSE IF options.colTemp # Absent THEN options.colTemp
                       ELSE options.defTemp
    /\ t.maxTokens = IF options.optMax # Absent THEN options.optMax
                     ELSE IF options.colMax # Absent THEN options.colMax
                     ELSE options.defMax

\* C20 amended: temperature and maxTokens of a built task are the formula's option when
\* it is present (0 included), else the column's override when it is present (0
\* included), else the default; the model is the formula's option when it is a
\* non-empty string, else the column's override when it is a non-empty string, else
\* the default.
C20_OptionPrecedenceNonEmptyModel ==
  \A t \in BuiltOptions :
    /\ t.modelId = IF options.optModel \notin {Null, ""} THEN options.optModel
                   ELSE IF options.colModel \notin {Null, ""} THEN options.colModel
                   ELSE options.defModel
    /\ t.temperature = IF options.optTemp # Absent THEN options.optTemp
                       ELSE IF options.colTemp # Absent THEN options.colTemp
                       ELSE options.defTemp
    /\ t.maxTokens = IF options.optMax # Absent THEN options.optMax
                     ELSE IF options.colMax # Absent THEN options.colMax
                     ELSE options.defMax

\* a run's task and a single-cell task built with temperature 0 from the formula over a
\* column override of 0.6, and maxTokens 0 from the column over the default
C20_Witness ==
  /\ options.optTemp = 0 /\ options.colTemp = 6
  /\ options.optMax = Absent /\ options.colMax = 0
  /\ \E k \in DOMAIN runs : \E i \in DOMAIN Tasks(k) :
       Tasks(k)[i].opts.temperature = 0 /\ Tasks(k)[i].opts.maxTokens = 0
  /\ \E j \in DOMAIN singles :
       singles[j].opts.temperature = 0 /\ singles[j].opts.maxTokens = 0

\* C21 as claimed: the prompt and the options of a task are made from the row's values
\* and the column as they are when the task list is built.
C21_PromptFromBuildTime ==
  [][\A k \in DOMAIN runs :
       (StartComputeBuild(k) /\ formulaOk) =>
         \A i \in DOMAIN runs'[k].tasks :
           /\ runs'[k].tasks[i].prompt
                = renderTemplate(template, inputs[runs'[k].tasks[i].row], maxInputChars).rendered
           /\ runs'[k].tasks[i].opts = TaskOptions(options)]_vars

\* C21 amended: the prompt of a task is the template rendered against the row's values,
\* and its model, temperature and maxTokens are made from the column, as they were when
\* startCompute was invoked (before its imports, so before the task list is built);
\* nothing, an edit of a row or of the formula included, changes them afterwards, and
\* the request sent for a task when it is dispatched carries exactly them.
C21_PromptFromInvocation ==
  [][/\ Len(runs') > Len(runs) =>
          /\ runs'[Len(runs')].snapInputs = inputs
          /\ runs'[Len(runs')].snapTemplate = template
          /\ runs'[Len(runs')].snapOptions = options
     /\ \A k \in DOMAIN runs :
          /\ (StartComputeBuild(k) /\ formulaOk) =>
               \A i \in DOMAIN runs'[k].tasks :
                 LET r == runs'[k].tasks[i].row
                 IN  /\ runs'[k].tasks[i].prompt
                          = renderTemplate(runs[k].snapTemplate, runs[k].snapInputs[r],
                                           maxInputChars).rendered
                     /\ runs'[k].tasks[i].opts = TaskOptions(runs[k].snapOptions)
                     /\ runs'[k].tasks[i].sent = NoRequest
          /\ (runs[k].pc = "batch" /\ runs'[k].pc = "batch") =>
               \A i \in DOMAIN Tasks(k) :
                 /\ runs'[k].tasks[i].prompt = Tasks(k)[i].prompt
                 /\ runs'[k].tasks[i].opts = Tasks(k)[i].opts
                 /\ Tasks(k)[i].sent # NoRequest => runs'[k].tasks[i].sent = Tasks(k)[i].sent
          /\ (Dispatch(k) /\ ~runs[k].aborted /\ apiKey) =>
               LET i == FirstOf(QueuedIdx(runs[k]))
               IN  runs'[k].tasks[i].sent
                     = [model |-> Tasks(k)[i].opts.modelId, content |-> Tasks(k)[i].prompt,
                        temperature |-> Tasks(k)[i].opts.temperature,
                        max_tokens |-> Tasks(k)[i].opts.maxTokens]]_vars

\* a request was sent for one task while another, still waiting, holds a prompt that its
\* row would no longer render to: the row or the formula was edited after the tasks were
\* built
C21_Witness ==
  \E k \in DOMAIN runs : \E i, j \in DOMAIN Tasks(k) :
    /\ Tasks(k)[i].sent # NoRequest
    /\ Tasks(k)[i].sent.content = Tasks(k)[i].prompt
    /\ Tasks(k)[j].pc = "queued"
    /\ Tasks(k)[j].prompt # PromptOf(template, inputs[Tasks(k)[j].row])

\* C22 as claimed: a run that has written a cell finishes with a saveSheet call made
\* after its last cell write: the step in which startCompute returns, when the run had
\* tasks or that step writes a cell, calls saveSheet as its last store operation.
C22_RunEndsWithSave ==
  [][\A k \in DOMAIN runs :
       (/\ runs[k].pc # "done" /\ runs'[k].pc = "done"
        /\ runs[k].pc = "batch" \/ meta' # meta \/ values' # values)
         => saveCall'.direct]_vars

\* results of a run that onResult has processed
Processed(run) == Cardinality({i \in DOMAIN run.tasks : run.tasks[i].reported = 1})

C24_ProgressEntryReplaced ==
  [][/\ Len(runs') > Len(runs) =>
          LET new == runs'[Len(runs')]
              k == IF new.retry THEN Cardinality({r \in Rows : meta[r].state = "error"})
                   ELSE IF new.forceAll THEN numRows
                   ELSE Cardinality({r \in Rows : meta[r].state # "done"
                                                    \/ values[r] \in {Null, ""}})
          IN  /\ hasProgress'
              /\ computeProgress'
                   = [total |-> k, queued |-> k, running |-> 0, done |-> 0, failed |-> 0]
              /\ k = Cardinality(RowsToCompute(new.retry, new.forceAll,
                                                new.snapMeta, new.snapValues))
     /\ otherProgress' = otherProgress
     /\ hasProgress => hasProgress'
     /\ (Stop \/ \E k \in DOMAIN runs : Finally(k)) =>
          computeProgress' = computeProgress /\ hasProgress' = hasProgress]_vars

\* a run was stopped and has returned: the column's entry is there, with its total of 2
\* and a failure counted, and so is the other column's
C24_Witness ==
  /\ \E k \in DOMAIN runs : runs[k].pc = "done"
  /\ isComputing = FALSE
  /\ hasProgress
  /\ computeProgress.total = 2
  /\ computeProgress.failed >= 1
  /\ otherProgress = OtherEntry
  /\ saveCall.direct

\* C25: parseFormula on =AI("a\"b") succeeds and returns the template a"b (the escaped
\* quote does not end the template).
C25_EscapedQuoteTemplate ==
  (formula = Wrap(<<Quote, "a", Backslash, Quote, "b", Quote>>) /\ parsed # NotParsed) =>
    /\ parsed.error = NoError
    /\ parsed.template = <<"a", Quote, "b">>

\* what the validated options of a JSON value are to be, number options in their range
ClampedTemperature(n) == IF n < 0 THEN 0 ELSE IF n > 10 THEN 10 ELSE n
AtLeastOne(n) == IF n < 1 THEN 1 ELSE n
KeptOptions(v) ==
  LET kept == [present |-> TRUE,
               model |-> IF v.model.type = "string" THEN v.model.str ELSE Null,
               temperature |-> IF v.temperature.type = "number"
                               THEN ClampedTemperature(v.temperature.num) ELSE Absent,
               maxTokens |-> IF v.maxTokens.type = "number"
                             THEN AtLeastOne(v.maxTokens.num) ELSE Absent]
  IN  IF "string" = v.model.type \/ "number" \in {v.temperature.type, v.maxTokens.type}
      THEN kept ELSE NoOptions

PlaceholderText(name, val) ==
  IF Trim(name) = ColumnName /\ ~val.isNull THEN val.text ELSE <<>>
PlaceholderWarnings(name) ==
  IF Trim(name) = ColumnName THEN <<>> ELSE <<Warning("notfound", name, 0)>>
Unlimited == maxInputChars \in {Absent, 0}
PlainTexts == {<<>>, <<"G">>}

\* C27: a placeholder whose trimmed name is no column is replaced by the empty string with
\* one warning naming it, so a template that is one such placeholder renders to "" with
\* exactly one warning; a placeholder of column A on a null cell is replaced by the empty
\* string with no warning; this holds of each placeholder of a template, with text around.
C27_UnknownPlaceholderWarns ==
  (rendered # NotRendered /\ Unlimited) =>
    /\ \A n \in Names :
         template = Placeholder(n) =>
           /\ Trim(n) # ColumnName =>
                rendered = [rendered |-> <<>>, warnings |-> <<Warning("notfound", n, 0)>>]
           /\ (Trim(n) = ColumnName /\ inputs[1].isNull) =>
                rendered = [rendered |-> <<>>, warnings |-> <<>>]
    /\ \A n1 \in Names, n2 \in Names, a \in PlainTexts, b \in PlainTexts :
         template = a \o Placeholder(n1) \o b \o Placeholder(n2) =>
           /\ rendered.rendered
                = a \o PlaceholderText(n1, inputs[1]) \o b \o PlaceholderText(n2, inputs[1])
           /\ rendered.warnings = PlaceholderWarnings(n1) \o PlaceholderWarnings(n2)

\* G{{ G }}{{A}} was rendered on a null cell: G, and one warning, naming " G "
C27_Witness ==
  /\ template = <<"G">> \o Placeholder(<<Space, "G", Space>>) \o Placeholder(ColumnName)
  /\ inputs[1] = CellNull
  /\ rendered = [rendered |-> <<"G">>,
                 warnings |-> <<Warning("notfound", <<Space, "G", Space>>, 0)>>]

\* C28: every \{{ of a template renders as one {, with no lookup and no warning for it,
\* and what stands before and after it renders as it does on its own: the rendered text
\* is that of the part before, a {, and that of the part after, and the warnings are
\* those of the two parts.
C28_EscapedBraceLiteral ==
  (rendered # NotRendered /\ Unlimited) =>
    \A i \in 1..Len(template) :
      (i + 2 <= Len(template) /\ SubSeq(template, i, i + 2) = Escaped) =>
        LET before == renderTemplate(SubSeq(template, 1, i - 1), inputs[1], 0)
            after == renderTemplate(SubSeq(template, i + 3, Len(template)), inputs[1], 0)
        IN  /\ rendered.rendered = before.rendered \o <<Open>> \o after.rendered
            /\ rendered.warnings = before.warnings \o after.warnings

\* C29: under a limit above 0 that the substituted text exceeds, the rendered text is
\* exactly the first limit characters of it and a truncation warning is appended; under
\* a limit of 0 or none, or when the text is not longer, the text is whole and there is no
\* truncation warning.
C29_TruncatedToLimit ==
  rendered # NotRendered =>
    LET whole == renderTemplate(template, inputs[1], 0)
    IN  IF maxInputChars # Absent /\ maxInputChars > 0 /\ Len(whole.rendered) > maxInputChars
        THEN /\ Len(rendered.rendered) = maxInputChars
             /\ rendered.rendered = SubSeq(whole.rendered, 1, maxInputChars)
             /\ rendered.warnings
                  = whole.warnings \o <<Warning("truncated", <<>>, maxInputChars)>>
        ELSE /\ rendered = whole
             /\ \A w \in Range(rendered.warnings) : w.kind # "truncated"

\* GG{{A}} was rendered on the cell vw under a limit of 3: GGv and the truncation warning
C29_Witness ==
  /\ template = <<"G", "G">> \o Placeholder(ColumnName)
  /\ inputs[1] = Text(<<"v", "w">>)
  /\ maxInputChars = 3
  /\ rendered = [rendered |-> <<"G", "G", "v">>,
                 warnings |-> <<Warning("truncated", <<>>, 3)>>]

\* C30: when stopCompute is invoked, every getCompletion call pending at that moment, of
\* a batch run in progress or of a single-cell compute, has its signal aborted, and what
\* it can then return is the error 'Request cancelled' only.
C30_StopCancelsPending ==
  [][Stop =>
       /\ \A k \in DOMAIN runs : \A i \in DOMAIN runs[k].tasks :
            (runs[k].pc = "batch" /\ runs[k].tasks[i].pc = "inflight") =>
              /\ runs'[k].aborted
              /\ Outcomes(runs'[k].aborted) = {ResRequestCancelled}
       /\ \A j \in DOMAIN singles :
            singles[j].pc = "inflight" =>
              /\ SingleAborted(singles'[j])
              /\ Outcomes(SingleAborted(singles'[j])) = {ResRequestCancelled}]_vars

\* C31 as claimed: when a stopped run has unwound, every cell that was queued or running
\* when Stop was requested and is not done with a non-empty value is among the rows a
\* default Compute run started now selects, and among the rows a Retry run selects.
C31_StoppedCellsSelectedAgain ==
  \A k \in DOMAIN runs :
    (runs[k].pc = "batch" /\ AllDone(runs[k]) /\ runs[k].stopped) =>
      \A r \in runs[k].atStop :
        ~(meta[r].state = "done" /\ values[r] \notin {Null, ""}) =>
          /\ r \in RowsToCompute(FALSE, FALSE, meta, values)
          /\ r \in RowsToCompute(TRUE, FALSE, meta, values)

\* C32 as claimed: in every state the four counters of the column's entry are 0 or more
\* and done + failed is at most total, so the percentage shown lies in 0..100.
C32_ProgressWithinTotal ==
  hasProgress =>
    /\ computeProgress.queued >= 0 /\ computeProgress.running >= 0
    /\ computeProgress.done >= 0 /\ computeProgress.failed >= 0
    /\ computeProgress.done + computeProgress.failed <= computeProgress.total
    /\ progressPercent(computeProgress) \in 0..100

\* C33 as claimed: the signal of a run becomes aborted only in a step that is a user stop
\* while the run has not returned, or the run's own completion; the completion of
\* another run never aborts it.
C33_AbortOnlyByStopOrOwnEnd ==
  [][\A j \in DOMAIN runs :
       (~runs[j].aborted /\ runs'[j].aborted) =>
         \/ Stop /\ runs[j].pc # "done"
         \/ Finally(j)]_vars

\* ------------------------------------------------ startCompute's early exits
\* a store with or without a sheet, and startCompute called for the AI column, for a
\* text column, or for a column id the sheet does not have
InitExit ==
  /\ currentSheet \in BOOLEAN
  /\ columnKind \in {"ai", "text", "missing"}
  /\ numRows = IF currentSheet THEN NumRows ELSE 0
  /\ meta = [r \in Rows |-> NoMeta]
  /\ values = [r \in Rows |-> Null]
  /\ isComputing = FALSE
  /\ abortController = 0
  /\ computeProgress = NoProgress
  /\ hasProgress = FALSE
  /\ runs = <<>>
  /\ singles = <<>>
  /\ cmds = 0
  /\ alert = NoAlert
  /\ apiKey \in BOOLEAN
  /\ formulaOk \in BOOLEAN
  /\ promptBlank \in [Rows -> BOOLEAN]
  /\ concurrency \in 1..NumRows
  /\ options = NoOverrides
  /\ template = PlainTemplate
  /\ inputs = [r \in Rows |-> IF promptBlank[r] THEN Text(<<>>) ELSE Text(<<"x">>)]
  /\ maxInputChars = 0
  /\ otherProgress = OtherEntry
  /\ saveCall = NoSave
  /\ formula = <<>>
  /\ parsed = NotParsed
  /\ rendered = NotRendered

ExitSpec == InitExit /\ [][NextSerial]_vars

\* C34 as claimed: once every startCompute invocation has returned and no continuation
\* of it is left to run, isComputing is false and the store holds no abort controller,
\* whichever way the invocation ended: no sheet loaded, column missing or not an AI
\* column, formula parse error, no tasks built, normal completion, cancellation
C34_FlagsResetOnEveryExit ==
  (runs # <<>> /\ NoLiveRun /\ MicroIdle) => (~isComputing /\ abortController = 0)

\* the counters of a finished run: nothing queued, nothing running, every selected row
\* counted as done or failed
ProgressComplete(p) == p.queued = 0 /\ p.running = 0 /\ p.done + p.failed = p.total

\* C35 as claimed: when a run completes without having been cancelled (its finally block
\* runs with the signal not aborted, or it returns because no task was built), the
\* column's progress entry has queued = 0, running = 0 and done + failed = total, also
\* when rows with a blank rendered prompt were selected
C35_CompleteRunCountsEveryRow ==
  [][\A k \in DOMAIN runs :
       \/ Finally(k) /\ ~runs[k].aborted
       \/ StartComputeBuild(k) /\ ~ParseFails /\ runs'[k].pc = "done"
       => ProgressComplete(computeProgress')]_vars

\* the number of the column's cells in state s
CellsIn(m, s) == Cardinality({r \in Rows : m[r].state = s})

\* the four counters are the numbers of cells queued, running, done and in error
CountersAgree(p, m) ==
  /\ p.queued = CellsIn(m, "queued")
  /\ p.running = CellsIn(m, "running")
  /\ p.done = CellsIn(m, "done")
  /\ p.failed = CellsIn(m, "error")

\* run k is the only startCompute invocation so far and no cell was computed or cleared
\* by hand: the user's commands were this run and, at most, a stop of it.  Started on
\* the fresh sheet, a run that builds tasks has selected every row
OnlyRun(k) ==
  /\ Len(runs) = 1
  /\ k = 1
  /\ singles = <<>>
  /\ cmds = 1 + (IF runs[k].stopped THEN 1 ELSE 0)

\* C36 as claimed: during a single batch run with no single-cell compute and no manual
\* clear, after every onTaskStart and onResult callback the counters queued, running,
\* done, failed equal the numbers of the run's selected cells in state queued, running,
\* done, error
C36_CountersAgreeWithCells ==
  [][\A k \in DOMAIN runs :
       (/\ OnlyRun(k)
        /\ \/ Dispatch(k) /\ ~SignalAborted(runs[k])
           \/ \E i \in DOMAIN runs[k].tasks : TaskContinue(k, i))
       => CountersAgree(computeProgress', meta')]_vars

\* C37: in every reachable state isComputing is true exactly when the store holds an
\* abort controller: startCompute sets both, and each of its exits that resets one
\* resets the other, as does stopCompute
C37_ComputingIffController == isComputing <=> (abortController # 0)

\* a run was started and then stopped: both fields were set together and reset together
C37_Witness ==
  /\ \E k \in DOMAIN runs : runs[k].stopped
  /\ ~isComputing
  /\ abortController = 0

\* C38: a cell's metadata carries an error message only while the cell's state is error:
\* updateCellState replaces the whole entry, so every write of queued, running, done or
\* idle drops a stored error
C38_ErrorOnlyInErrorState ==
  \A r \in Rows : meta[r].error # NoError => meta[r].state = "error"

\* a retry run selects cells in state error only; one of them is running again, its
\* stored error gone
C38_Witness ==
  \E k \in DOMAIN runs :
    /\ runs[k].retry
    /\ runs[k].pc = "batch"
    /\ \E i \in DOMAIN runs[k].tasks :
         meta[runs[k].tasks[i].row] = [state |-> "running", error |-> NoError]

\* every cell of the column but row r's keeps its value and its metadata
OtherCellsUnchanged(r) ==
  \A q \in Rows \ {r} : meta'[q] = meta[q] /\ values'[q] = values[q]

\* C39 as claimed: an onTaskStart or onResult callback for a task changes the value and
\* the metadata of the task's cell only, and an onResult whose result carries an error
\* leaves the value stored in that cell as it was
C39_CallbackTouchesOwnCell ==
  [][\A k \in DOMAIN runs :
       /\ Dispatch(k) /\ ~SignalAborted(runs[k]) =>
            /\ OtherCellsUnchanged(runs[k].tasks[FirstOf(QueuedIdx(runs[k]))].row)
            /\ values' = values
       /\ \A i \in DOMAIN runs[k].tasks :
            TaskContinue(k, i) =>
              /\ OtherCellsUnchanged(runs[k].tasks[i].row)
              /\ runs[k].tasks[i].res.error # NoError =>
                   values'[runs[k].tasks[i].row] = values[runs[k].tasks[i].row]]_vars

=============================================================================
